---- MODULE Spec2Model ----
(***************************************************************************)
(* Session lifecycle of the viva backend: the VivaSession collection, the  *)
(* VivaService methods that read and write it (app/services/               *)
(* viva_service.py) and the HTTP handlers that call them (app/api/v1/      *)
(* viva.py), each handler or method run to completion as one step.         *)
(***************************************************************************)
EXTENDS Integers, Sequences, FiniteSets, TLC

\* ------------------------------------------------------------------ bounds
\* Number of sessions the store ever assigns an id to.
MaxSessions == 3
\* Largest reading of the UTC clock.
MaxClock == 3
MaxCalls == 2
\* Turns recorded in all, over all sessions.
MaxTurns == 3
\* Database clients created in one process.
MaxClients == 6

\* --------------------------------------------------------------- constants
\* VivaFeedback.score: Field(ge=0, le=10).
ScoreMin == 0
ScoreMax == 10

\* create_ephemeral_token: "uses", the minutes added to now() for
\* "expire_time", and the "session_duration_minutes" it returns.
TokenUses == 1
TokenExpireMinutes == 15
SessionDurationMinutes == 5

\* Python's None, and a present Optional value.
None == <<>>
Some(x) == <<x>>

\* Subject ids of verified principals (AuthenticatedUser.user_id).
Users == {"user_a", "user_b"}
\* A request that carries no verified principal.
NoPrincipal == "no_principal"

\* Ids the store can assign (well-formed ObjectIds), in order of assignment.
SessionIds == 1 .. MaxSessions
\* A string that is not 24 hex characters.
MalformedIds == {0}

Topics == {"Python Programming"}
Titles == Topics \cup {"Midterm Viva"}

\* Request bodies of POST /start (VivaStartRequest); user_id is a body field.
StartRequests ==
    [student_name : {"Ada"}, user_id : Users, topic : Topics,
     class_level : {10}, session_type : {None}, voice_name : {Some("Kore")}]

\* Arguments of conclude: (score, summary, strong_points, areas_of_improvement).
ConcludeArgs ==
    { [score |-> 8, summary |-> "Good grasp of loops",
       strong_points |-> <<"loops">>, areas_of_improvement |-> <<"recursion">>],
      [score |-> 3, summary |-> "Needs work",
       strong_points |-> <<>>, areas_of_improvement |-> <<"loops", "recursion">>],
      [score |-> 11, summary |-> "Good grasp of loops",
       strong_points |-> <<"loops">>, areas_of_improvement |-> <<"recursion">>],
      [score |-> -1, summary |-> "Needs work",
       strong_points |-> <<>>, areas_of_improvement |-> <<"loops", "recursion">>] }

VARIABLES
    sessions,   \* the viva_sessions collection: id -> VivaSession document
    nextId,     \* the next id the store assigns on insert
    clock,      \* the latest reading of datetime.now(tz=utc)
    last,       \* the call just completed: operation, arguments, outcome
    pending,    \* start calls suspended between insert() and the token request
    calls,      \* conclude, rename and delete calls run in two steps: those
                \* suspended between get() and save()/delete(), and those returned
    turns,      \* multi-turn variant: session id -> the turns recorded for it
    database    \* db/database.py: the module-level _client and the number of
                \* clients created so far

vars == <<sessions, nextId, clock, last, pending, calls, turns, database>>

\* ------------------------------------------------------------- documents
\* VivaFeedback(score=..., summary=..., strong_points=..., areas_of_improvement=...)
\* passes pydantic validation iff ge=0, le=10 hold of score.
VivaFeedbackValid_NoUpperBound(a) == a.score >= ScoreMin

VivaFeedbackValid(a) == a.score >= ScoreMin /\ a.score <= ScoreMax

\* Variant: strengths and weaknesses are stored in each other's field.
VivaFeedback_Swapped(a) ==
    [score |-> a.score, summary |-> a.summary,
     strong_points |-> a.areas_of_improvement,
     areas_of_improvement |-> a.strong_points]

VivaFeedback(a) ==
    [score |-> a.score, summary |-> a.summary,
     strong_points |-> a.strong_points,
     areas_of_improvement |-> a.areas_of_improvement]

\* Variant: the new document is stamped with an end time at construction.
VivaSession_EndedAtCreation(req, now) ==
    [student_name |-> req.student_name, user_id |-> req.user_id,
     title |-> req.topic, session_type |-> "viva", topic |-> req.topic,
     class_level |-> req.class_level, started_at |-> now,
     ended_at |-> Some(now), status |-> "in_progress", feedback |-> None]

\* The document start_new_viva_session constructs.
VivaSession(req, now) ==
    [student_name |-> req.student_name,
     user_id      |-> req.user_id,
     title        |-> req.topic,
     session_type |-> IF req.session_type = None THEN "viva"
                      ELSE req.session_type[1],
     topic        |-> req.topic,
     class_level  |-> req.class_level,
     started_at   |-> now,
     ended_at     |-> None,
     status       |-> "in_progress",
     feedback     |-> None]

\* VivaSession.get(ObjectId(id)): the document, or None.
Found(sid) == sid \in DOMAIN sessions

\* Variant: a clock that can be set back.
ClockReadings_Backwards == 1 .. MaxClock

\* A reading of datetime.now(tz=utc): later than every earlier reading (the
\* clock does not go backwards and no two handlers read the same microsecond).
ClockReadings == {t \in {clock + 1} : t <= MaxClock}

\* ------------------------------------------------------- call outcomes
\* What a call leaves behind: the store, the id counter, the clock, and
\* what the caller gets (a result kind and a returned value).
\* token is the credential request the call made of the LLM client, if any.
Outcome(ss, nid, clk, result, ret) ==
    [sessions |-> ss, nextId |-> nid, clock |-> clk, result |-> result, ret |-> ret,
     token |-> None, raised |-> None, detail |-> None]

\* An exception raised before any write.
Raise(kind) == Outcome(sessions, nextId, clock, kind, None)

\* --------------------------------------------------------- VivaService
\* start_new_viva_session: insert the new document, then ask the LLM client
\* for an ephemeral token; tokenOk is whether create_ephemeral_token returns.
StartReturn(sid, req) ==
    [viva_session_id |-> sid,
     session_duration_minutes |-> SessionDurationMinutes,
     voice_name |-> IF req.voice_name = None THEN "Kore" ELSE req.voice_name[1]]

\* _CONCLUDE_VIVA_TOOL: the name, the declared properties and the required
\* ones.
ConcludeVivaTool ==
    [name |-> "conclude_viva",
     properties |-> {"score", "summary", "strong_points", "areas_of_improvement"},
     required |-> {"score", "summary", "strong_points", "areas_of_improvement"}]

\* Variant: the tools of the multi-tool protocol are declared as well.
ToolDeclarations_MultiTool ==
    << [name |-> "next_question",
        properties |-> {"topic", "class_level", "difficulty"},
        required |-> {"topic", "class_level", "difficulty"}],
       [name |-> "evaluate_and_save",
        properties |-> {"question_text", "student_answer", "is_correct"},
        required |-> {"question_text", "student_answer", "is_correct"}],
       ConcludeVivaTool >>

\* tool_declarations = [self._CONCLUDE_VIVA_TOOL]
ToolDeclarations == << ConcludeVivaTool >>

\* Variant: the token may open a second connection.
TokenConfig_Reusable ==
    [uses |-> TokenUses + 1, expire_minutes |-> TokenExpireMinutes,
     tools |-> ToolDeclarations]

\* token_config of create_ephemeral_token: "uses", the distance of
\* "expire_time" from the time of the request in minutes, and the function
\* declarations of live_connect_constraints.config.tools.
TokenConfig ==
    [uses |-> TokenUses, expire_minutes |-> TokenExpireMinutes,
     tools |-> ToolDeclarations]

\* The GeminiService instances: self._api_key is settings.GOOGLE_API_KEY.
ApiKeys == {"AIza-key-1", "AIza-key-2"}
GeminiServices == [api_key : ApiKeys]

\* Requests the instruction builder is given.
BuilderRequests ==
    [student_name : {"Ada", "Bo"}, user_id : Users,
     topic : {"Python Programming", "Thermodynamics"},
     class_level : {9, 10}, session_type : {None, Some("viva")},
     voice_name : {None, Some("Kore")}]

\* Variant: the key of the service is written into the prompt.
SystemInstruction_EmbedsKey(self, req) ==
    << "You are an expert oral examiner conducting a Viva (oral exam) for a student.",
       "**Student Name:**", req.student_name,
       "**Topic:**", req.topic,
       "**Class Level:**", ToString(req.class_level),
       "**Session Duration:** 5 minutes maximum",
       "**Your Role & Protocol:** ... **Strict Rules:** ...",
       self.api_key >>

\* generate_system_instruction: the f-string, as its literal parts and the
\* three values formatted into it.
SystemInstruction(self, req) ==
    << "You are an expert oral examiner conducting a Viva (oral exam) for a student.",
       "**Student Name:**", req.student_name,
       "**Topic:**", req.topic,
       "**Class Level:**", ToString(req.class_level),
       "**Session Duration:** 5 minutes maximum",
       "**Your Role & Protocol:** ... **Strict Rules:** ..." >>

\* client.aio.auth_tokens.create(config=token_config); issued is whether it
\* returned a token (otherwise it raised or timed out).
TokenRequest(issued) == [config |-> TokenConfig, issued |-> issued]

\* Variant: the insert has not completed when the call goes on.
StartInsert_Deferred(req, now) ==
    Outcome(sessions, nextId, now, "awaiting_token", [viva_session_id |-> nextId])

\* First part of start_new_viva_session, up to the return of
\* `await new_session.insert()`: the document is stored under a fresh id.
StartInsert(req, now) ==
    Outcome(sessions @@ (nextId :> VivaSession(req, now)), nextId + 1, now,
            "awaiting_token", [viva_session_id |-> nextId])

\* Variant: a failed token request deletes the document again.
StartToken_RollsBack(ins, req, tokenOk) ==
    IF tokenOk
    THEN [ins EXCEPT !.result = "ok",
                     !.ret = StartReturn(ins.ret.viva_session_id, req),
                     !.token = Some(TokenRequest(TRUE))]
    ELSE [ins EXCEPT !.result = "ProvisioningFailure",
                     !.ret = None,
                     !.token = Some(TokenRequest(FALSE)),
                     !.sessions = [i \in DOMAIN ins.sessions \ {ins.ret.viva_session_id}
                                     |-> ins.sessions[i]]]

\* Second part: `await self.llm_client.create_ephemeral_token(...)` and the
\* return; ins is the outcome of the first part. An exception of the token
\* request propagates, nothing is undone.
StartToken(ins, req, tokenOk) ==
    IF tokenOk
    THEN [ins EXCEPT !.result = "ok",
                     !.ret = StartReturn(ins.ret.viva_session_id, req),
                     !.token = Some(TokenRequest(TRUE))]
    ELSE [ins EXCEPT !.result = "ProvisioningFailure",
                     !.ret = None,
                     !.token = Some(TokenRequest(FALSE))]

StartOutcome(req, now, tokenOk) == StartToken(StartInsert(req, now), req, tokenOk)

\* Variants: one of the three assignments is missing, or hits another field.
ConcludedSession_NoStatus(s, a, now) ==
    [s EXCEPT !.feedback = Some(VivaFeedback(a)), !.ended_at = Some(now)]

ConcludedSession_NoEndedAt(s, a, now) ==
    [s EXCEPT !.feedback = Some(VivaFeedback(a)), !.status = "completed"]

ConcludedSession_RestampsStart(s, a, now) ==
    [s EXCEPT !.feedback = Some(VivaFeedback(a)), !.status = "completed",
              !.started_at = now, !.ended_at = Some(now)]

\* conclude_viva_session: the three assignments before session.save().
ConcludedSession(s, a, now) ==
    [s EXCEPT !.feedback = Some(VivaFeedback(a)),
              !.status = "completed",
              !.ended_at = Some(now)]

ConcludeReturn(a) ==
    [status |-> "completed", score |-> a.score, final_feedback |-> a.summary]

\* What conclude_viva_session raises before it reads the clock, or "ok".
ConcludeCheck(sid, a) ==
    IF sid \in MalformedIds THEN "InvalidId"
    ELSE IF ~Found(sid) THEN "NotFound"
    ELSE IF ~VivaFeedbackValid(a) THEN "ValidationError"
    ELSE "ok"

ConcludeOutcome(sid, a, now) ==
    IF ConcludeCheck(sid, a) # "ok" THEN Raise(ConcludeCheck(sid, a))
    ELSE Outcome([sessions EXCEPT ![sid] = ConcludedSession(@, a, now)],
                 nextId, now, "ok", ConcludeReturn(a))

\* get_viva_session_details: the returned dict.
\* Variant: the view shows the topic where the title belongs.
SessionDetails_TopicAsTitle(sid, s) ==
    [viva_session_id |-> sid, student_name |-> s.student_name,
     title |-> s.topic, topic |-> s.topic, class_level |-> s.class_level,
     started_at |-> s.started_at, ended_at |-> s.ended_at,
     status |-> s.status, feedback |-> s.feedback]

SessionDetails(sid, s) ==
    [viva_session_id |-> sid, student_name |-> s.student_name,
     title |-> s.title, topic |-> s.topic, class_level |-> s.class_level,
     started_at |-> s.started_at, ended_at |-> s.ended_at,
     status |-> s.status, feedback |-> s.feedback]

DetailsOutcome(sid) ==
    IF sid \in MalformedIds THEN Raise("InvalidId")
    ELSE IF ~Found(sid) THEN Raise("NotFound")
    ELSE Outcome(sessions, nextId, clock, "ok", SessionDetails(sid, sessions[sid]))

\* Variant: the query has no owner filter.
HistoryFilter_AllSessions(u) == DOMAIN sessions

\* Variant: the query returns ended sessions only.
HistoryFilter_EndedOnly(u) ==
    {i \in DOMAIN sessions : sessions[i].user_id = u /\ sessions[i].ended_at # None}

\* get_user_history: find(user_id == u).sort(-started_at).to_list().
HistoryFilter(u) == {i \in DOMAIN sessions : sessions[i].user_id = u}

SortedDescending(h) ==
    \A k \in 1 .. Len(h) - 1 :
        sessions[h[k]].started_at >= sessions[h[k + 1]].started_at

\* Every order the sort may return (documents with equal keys in any order).
HistoryOrders(u) ==
    LET S == HistoryFilter(u) IN
    {h \in [1 .. Cardinality(S) -> S] :
        /\ \A j, k \in 1 .. Cardinality(S) : j # k => h[j] # h[k]
        /\ SortedDescending(h)}

SessionSummary(sid, s) ==
    [viva_session_id |-> sid, title |-> s.title, topic |-> s.topic,
     class_level |-> s.class_level, started_at |-> s.started_at,
     session_type |-> s.session_type, status |-> s.status]

HistoryOutcome(h) ==
    Outcome(sessions, nextId, clock, "ok",
            [k \in 1 .. Len(h) |-> SessionSummary(h[k], sessions[h[k]])])

\* Variant: the renamed document is saved with the default status.
RenamedSession_ResetsStatus(s, new_title) ==
    [s EXCEPT !.title = new_title, !.status = "in_progress"]

\* Variant: the new title is written to topic as well (start sets both).
RenamedSession_RenamesTopic(s, new_title) ==
    [s EXCEPT !.title = new_title, !.topic = new_title]

\* Variant: a rename marks the session abandoned.
RenamedSession_Abandons(s, new_title) ==
    [s EXCEPT !.title = new_title, !.status = "abandoned"]

\* rename_session: session.title = new_title; session.save().
RenamedSession(s, new_title) == [s EXCEPT !.title = new_title]

RenameOutcome(sid, new_title) ==
    IF sid \in MalformedIds THEN Raise("InvalidId")
    ELSE IF ~Found(sid) THEN Raise("NotFound")
    ELSE Outcome([sessions EXCEPT ![sid] = RenamedSession(@, new_title)],
                 nextId, clock, "ok",
                 [status |-> "success", message |-> "Session renamed successfully"])

\* Variants: deleting an absent id reports success; a delete that reports
\* success leaves the document in the collection.
DeleteOutcome_Silent(sid) ==
    IF sid \in MalformedIds THEN Raise("InvalidId")
    ELSE Outcome([i \in DOMAIN sessions \ {sid} |-> sessions[i]],
                 nextId, clock, "ok",
                 [status |-> "success", message |-> "Session deleted successfully"])

DeleteOutcome_KeepsRecord(sid) ==
    IF sid \in MalformedIds THEN Raise("InvalidId")
    ELSE IF ~Found(sid) THEN Raise("NotFound")
    ELSE Outcome(sessions, nextId, clock, "ok",
                 [status |-> "success", message |-> "Session deleted successfully"])

\* delete_session: session.delete().
DeleteOutcome(sid) ==
    IF sid \in MalformedIds THEN Raise("InvalidId")
    ELSE IF ~Found(sid) THEN Raise("NotFound")
    ELSE Outcome([i \in DOMAIN sessions \ {sid} |-> sessions[i]],
                 nextId, clock, "ok",
                 [status |-> "success", message |-> "Session deleted successfully"])

\* Variants of save(): the filter matches the owner instead of the id; a
\* completed document in the store keeps its status, feedback and ended_at.
Save_ByOwner(ss, sid, doc) ==
    [i \in DOMAIN ss \cup {sid} |->
        IF i = sid \/ ss[i].user_id = doc.user_id THEN doc ELSE ss[i]]

Save_KeepsConclusion(ss, sid, doc) ==
    [i \in DOMAIN ss \cup {sid} |->
        IF i # sid THEN ss[i]
        ELSE IF sid \in DOMAIN ss /\ ss[sid].status = "completed"
        THEN [doc EXCEPT !.status = ss[sid].status,
                         !.feedback = ss[sid].feedback,
                         !.ended_at = ss[sid].ended_at]
        ELSE doc]

\* `await session.save()` taking effect in the store: every field of the
\* document with that id is set from the in-memory copy (the document is
\* created if the store has none with that id).
Save(ss, sid, doc) ==
    [i \in DOMAIN ss \cup {sid} |-> IF i = sid THEN doc ELSE ss[i]]

\* `await session.delete()` taking effect in the store.
Delete(ss, sid) == [i \in DOMAIN ss \ {sid} |-> ss[i]]

\* A call returns: its effects are in the store and its outcome with the caller.
Returns(op, caller, sid, args, out) ==
    /\ sessions' = out.sessions
    /\ nextId' = out.nextId
    /\ clock' = out.clock
    /\ last' = [op |-> op, caller |-> caller, sid |-> sid,
                args |-> IF out.result \in {"ok", "200"} THEN args ELSE None,
                result |-> out.result, ret |-> out.ret, token |-> out.token,
                raised |-> out.raised, detail |-> out.detail]

\* A call that runs from its first line to its return with no other call
\* in between.
Complete(op, caller, sid, args, out) ==
    /\ Returns(op, caller, sid, args, out)
    /\ pending' = pending
    /\ calls' = calls
    /\ turns' = turns
    /\ database' = database

\* The service methods, called on behalf of the principal `caller` (none of
\* the methods has a parameter for the principal).
start_new_viva_session(caller, req, now, tokenOk) ==
    /\ nextId <= MaxSessions
    /\ now \in ClockReadings
    /\ Complete("start_new_viva_session", caller, nextId, req,
                StartOutcome(req, now, tokenOk))

\* conclude_viva_session, rename_session and delete_session in two steps,
\* with other calls free to run between the return of `await
\* VivaSession.get(...)` and the effect of `await session.save()` or
\* `await session.delete()`. A call that raises does so in its first step.
Suspend(op, caller, sid, args, doc) ==
    /\ Cardinality(calls) < MaxCalls
    /\ calls' = calls \cup {[op |-> op, caller |-> caller, sid |-> sid,
                              args |-> args, doc |-> doc, pc |-> "write"]}
    /\ UNCHANGED <<sessions, nextId, last, pending, turns, database>>

Resume(c, out) ==
    /\ Returns(c.op, c.caller, c.sid, c.args, out)
    /\ calls' = (calls \ {c}) \cup {[c EXCEPT !.pc = "returned"]}
    /\ pending' = pending
    /\ turns' = turns
    /\ database' = database

conclude_viva_session_get(caller, sid, a, now) ==
    IF ConcludeCheck(sid, a) # "ok"
    THEN Complete("conclude_viva_session", caller, sid, a, Raise(ConcludeCheck(sid, a)))
    ELSE /\ now \in ClockReadings
         /\ clock' = now
         /\ Suspend("conclude_viva_session", caller, sid, a,
                    ConcludedSession(sessions[sid], a, now))

conclude_viva_session_save(c) ==
    /\ c \in calls
    /\ c.op = "conclude_viva_session"
    /\ c.pc = "write"
    /\ Resume(c, Outcome(Save(sessions, c.sid, c.doc), nextId, clock, "ok",
                         ConcludeReturn(c.args)))

rename_session_get(caller, sid, new_title) ==
    IF RenameOutcome(sid, new_title).result # "ok"
    THEN Complete("rename_session", caller, sid, new_title, RenameOutcome(sid, new_title))
    ELSE /\ clock' = clock
         /\ Suspend("rename_session", caller, sid, new_title,
                    RenamedSession(sessions[sid], new_title))

rename_session_save(c) ==
    /\ c \in calls
    /\ c.op = "rename_session"
    /\ c.pc = "write"
    /\ Resume(c, Outcome(Save(sessions, c.sid, c.doc), nextId, clock, "ok",
                         [status |-> "success",
                          message |-> "Session renamed successfully"]))

delete_session_get(caller, sid) ==
    IF DeleteOutcome(sid).result # "ok"
    THEN Complete("delete_session", caller, sid, None, DeleteOutcome(sid))
    ELSE /\ clock' = clock
         /\ Suspend("delete_session", caller, sid, None, sessions[sid])

delete_session_delete(c) ==
    /\ c \in calls
    /\ c.op = "delete_session"
    /\ c.pc = "write"
    /\ Resume(c, Outcome(Delete(sessions, c.sid), nextId, clock, "ok",
                         [status |-> "success",
                          message |-> "Session deleted successfully"]))

\* GeminiService.generate_system_instruction, called on its own.
generate_system_instruction(self, req) ==
    Complete("generate_system_instruction", NoPrincipal, 0,
             [self |-> self, viva_request |-> req],
             Outcome(sessions, nextId, clock, "ok", SystemInstruction(self, req)))

\* start_new_viva_session in its two parts, with other calls free to run
\* while it waits for the token: up to the return of insert(), ...
start_new_viva_session_insert(caller, req, now) ==
    /\ nextId <= MaxSessions
    /\ now \in ClockReadings
    /\ LET ins == StartInsert(req, now) IN
       /\ sessions' = ins.sessions
       /\ nextId' = ins.nextId
       /\ clock' = ins.clock
       /\ pending' = pending \cup {[caller |-> caller, req |-> req,
                                    sid |-> ins.ret.viva_session_id]}
    /\ UNCHANGED <<last, calls, turns, database>>

\* ... and from the token request to the return.
start_new_viva_session_token(p, tokenOk) ==
    /\ p \in pending
    /\ Returns("start_new_viva_session", p.caller, p.sid, p.req,
               StartToken(Outcome(sessions, nextId, clock, "awaiting_token",
                                  [viva_session_id |-> p.sid]),
                          p.req, tokenOk))
    /\ pending' = pending \ {p}
    /\ calls' = calls
    /\ turns' = turns
    /\ database' = database

conclude_viva_session(caller, sid, a) ==
    IF ConcludeCheck(sid, a) # "ok"
    THEN Complete("conclude_viva_session", caller, sid, a, Raise(ConcludeCheck(sid, a)))
    ELSE \E now \in ClockReadings :
            Complete("conclude_viva_session", caller, sid, a,
                     ConcludeOutcome(sid, a, now))

get_viva_session_details(sid) ==
    Complete("get_viva_session_details", NoPrincipal, sid, None, DetailsOutcome(sid))

get_user_history(user_id, h) ==
    Complete("get_user_history", NoPrincipal, 0, user_id, HistoryOutcome(h))

rename_session(caller, sid, new_title) ==
    Complete("rename_session", caller, sid, new_title, RenameOutcome(sid, new_title))

delete_session(caller, sid) ==
    Complete("delete_session", caller, sid, None, DeleteOutcome(sid))

\* ------------------------------------------------------------ HTTP API
\* Keyword parameters each VivaService method declares (besides self).
ServiceParams ==
    [start_new_viva_session |-> {"viva_request"},
     conclude_viva_session |-> {"viva_session_id", "score", "summary",
                                "strong_points", "areas_of_improvement"},
     rename_session |-> {"session_id", "new_title"},
     delete_session |-> {"session_id"}]

\* Keyword arguments each handler passes to the method it calls.
HandlerKwargs ==
    [start_new_viva_session |-> {"viva_request", "user_id"},
     conclude_viva_session |-> {"viva_session_id", "score", "summary",
                                "strong_points", "areas_of_improvement", "user_id"},
     rename_session |-> {"session_id", "new_title", "user_id"},
     delete_session |-> {"session_id", "user_id"}]

\* A Python call binds iff every keyword names a parameter; else TypeError.
Binds(method) == HandlerKwargs[method] \subseteq ServiceParams[method]

\* Fields of the ConcludeVivaRequest body, and the attributes conclude_viva
\* reads from it (reading a field the schema lacks raises AttributeError).
ConcludeVivaRequestFields == {"viva_session_id", "final_feedback"}
ConcludeVivaReads ==
    {"viva_session_id", "score", "summary", "strong_points", "areas_of_improvement"}

\* SessionIdPath: min_length=24, max_length=24, pattern ^[a-fA-F0-9]{24}$.
SessionIdPathValid(sid) == sid \notin MalformedIds

\* The except clauses of conclude_viva, rename_session_endpoint and
\* delete_session_endpoint: ValueError -> 404, PermissionError -> 403,
\* anything else -> 500. A pydantic ValidationError is a ValueError.
HttpOfOwnerChecked(result) ==
    CASE result = "ok" -> "200"
      [] result \in {"NotFound", "ValidationError"} -> "404"
      [] result = "PermissionError" -> "403"
      [] OTHER -> "500"

\* get_session_details: ValueError -> 404, anything else -> 500.
HttpOfDetails(result) ==
    CASE result = "ok" -> "200"
      [] result \in {"NotFound", "ValidationError"} -> "404"
      [] OTHER -> "500"

\* start_viva and get_history: any exception -> 500.
HttpOfGeneric(result) == IF result = "ok" THEN "200" ELSE "500"

\* str(e) of what the service, the store driver or the handler's own call
\* raises.
ExceptionText ==
    [NotFound |-> "Viva session not found",
     ValidationError |-> "1 validation error for VivaFeedback",
     InvalidId |-> "is not a valid ObjectId",
     TypeError |-> "got an unexpected keyword argument 'user_id'",
     AttributeError |-> "'ConcludeVivaRequest' object has no attribute 'score'",
     StoreFailure |-> "ServerSelectionTimeoutError",
     ProvisioningFailure |-> "token creation failed",
     PermissionError |-> "not the owner",
     Unauthenticated |-> "Authentication required",
     RequestValidationError |-> "String should match pattern"]

\* The detail of each handler's last except clause.
GenericDetail ==
    [start_viva |-> "Failed to start session. Please try again.",
     conclude_viva |-> "Failed to conclude session. Please try again.",
     get_history |-> "Failed to fetch history. Please try again.",
     get_session_details |-> "Failed to fetch session details. Please try again.",
     rename_session_endpoint |-> "Failed to rename session. Please try again.",
     delete_session_endpoint |-> "Failed to delete session. Please try again."]

\* Variant: the last except clause passes str(e) on, as the others do.
ResponseDetail_EchoesException(op, status, kind) ==
    IF status = "200" THEN None ELSE Some(ExceptionText[kind])

\* detail of the HTTPException: str(e) for 404 and 403 (and what the
\* dependency or the validation says for 401 and 422), the handler's fixed
\* text for 500.
ResponseDetail(op, status, kind) ==
    IF status = "200" THEN None
    ELSE IF status = "500" THEN Some(GenericDetail[op])
    ELSE Some(ExceptionText[kind])

\* The response of handler op to the outcome out of what it called.
Respond(op, out, status) ==
    [out EXCEPT !.result = status,
                !.ret = IF status = "200" THEN @ ELSE None,
                !.raised = IF out.result = "ok" THEN None ELSE Some(out.result),
                !.detail = ResponseDetail(op, status, out.result)]

\* Variant: the route is declared with the optional dependency.
get_current_user_Optional(user) == "ok"

\* get_current_user: 401 when get_current_user_optional yielded None.
get_current_user(user) == IF user = NoPrincipal THEN "Unauthenticated" ELSE "ok"

\* Rejections before the handler body runs.
Unauthenticated(op) == Respond(op, Raise("Unauthenticated"), "401")
Unprocessable(op) == Respond(op, Raise("RequestValidationError"), "422")

\* POST /start. cred is what get_current_user_optional yields.
start_viva(cred, req) ==
    IF get_current_user(cred) # "ok"
    THEN Complete("start_viva", cred, 0, req, Unauthenticated("start_viva"))
    ELSE IF ~Binds("start_new_viva_session")
    THEN Complete("start_viva", cred, 0, req,
                  Respond("start_viva", Raise("TypeError"),
                          HttpOfGeneric("TypeError")))
    ELSE \E now \in ClockReadings, ok \in BOOLEAN :
            /\ nextId <= MaxSessions
            /\ LET out == StartOutcome(req, now, ok) IN
               Complete("start_viva", cred, nextId, req,
                        Respond("start_viva", out, HttpOfGeneric(out.result)))

\* POST /conclude-viva. The session id is a body field (a plain str); the
\* handler reads request.score, .summary, .strong_points, .areas_of_improvement.
ConcludeVivaRequests ==
    [viva_session_id : SessionIds \cup MalformedIds,
     final_feedback : {"Good grasp of loops"}]

ConcludeVivaArgs(body) ==
    [score |-> body.score, summary |-> body.summary,
     strong_points |-> body.strong_points,
     areas_of_improvement |-> body.areas_of_improvement]

conclude_viva(cred, body) ==
    LET sid == body.viva_session_id IN
    IF get_current_user(cred) # "ok"
    THEN Complete("conclude_viva", cred, sid, body,
                  Unauthenticated("conclude_viva"))
    ELSE IF ~(ConcludeVivaReads \subseteq ConcludeVivaRequestFields)
            \/ ~Binds("conclude_viva_session")
    THEN Complete("conclude_viva", cred, sid, body,
                  Respond("conclude_viva", Raise("AttributeError"),
                          HttpOfOwnerChecked("AttributeError")))
    ELSE IF ConcludeCheck(sid, ConcludeVivaArgs(body)) # "ok"
    THEN LET out == Raise(ConcludeCheck(sid, ConcludeVivaArgs(body))) IN
         Complete("conclude_viva", cred, sid, body,
                  Respond("conclude_viva", out, HttpOfOwnerChecked(out.result)))
    ELSE \E now \in ClockReadings :
            LET out == ConcludeOutcome(sid, ConcludeVivaArgs(body), now) IN
            Complete("conclude_viva", cred, sid, body,
                     Respond("conclude_viva", out, HttpOfOwnerChecked(out.result)))

\* GET /history: the history of the authenticated user. storeOk is whether
\* the store answers the query; otherwise the driver raises.
get_history(cred, h, storeOk) ==
    IF get_current_user(cred) # "ok"
    THEN Complete("get_history", cred, 0, None,
                  Unauthenticated("get_history"))
    ELSE /\ h \in HistoryOrders(cred)
         /\ LET out == IF storeOk THEN HistoryOutcome(h) ELSE Raise("StoreFailure") IN
            Complete("get_history", cred, 0, None,
                     Respond("get_history", out, HttpOfGeneric(out.result)))

\* GET /{session_id}: public, no principal is resolved.
get_session_details(sid, storeOk) ==
    IF ~SessionIdPathValid(sid)
    THEN Complete("get_session_details", NoPrincipal, sid, None,
                  Unprocessable("get_session_details"))
    ELSE LET out == IF storeOk THEN DetailsOutcome(sid) ELSE Raise("StoreFailure") IN
         Complete("get_session_details", NoPrincipal, sid, None,
                  Respond("get_session_details", out, HttpOfDetails(out.result)))

\* PATCH /{session_id}/rename.
rename_session_endpoint(cred, sid, new_title) ==
    IF get_current_user(cred) # "ok"
    THEN Complete("rename_session_endpoint", cred, sid, new_title,
                  Unauthenticated("rename_session_endpoint"))
    ELSE IF ~SessionIdPathValid(sid)
    THEN Complete("rename_session_endpoint", cred, sid, new_title,
                  Unprocessable("rename_session_endpoint"))
    ELSE IF ~Binds("rename_session")
    THEN Complete("rename_session_endpoint", cred, sid, new_title,
                  Respond("rename_session_endpoint", Raise("TypeError"),
                          HttpOfOwnerChecked("TypeError")))
    ELSE LET out == RenameOutcome(sid, new_title) IN
         Complete("rename_session_endpoint", cred, sid, new_title,
                  Respond("rename_session_endpoint", out,
                          HttpOfOwnerChecked(out.result)))

\* DELETE /{session_id}.
delete_session_endpoint(cred, sid) ==
    IF get_current_user(cred) # "ok"
    THEN Complete("delete_session_endpoint", cred, sid, None,
                  Unauthenticated("delete_session_endpoint"))
    ELSE IF ~SessionIdPathValid(sid)
    THEN Complete("delete_session_endpoint", cred, sid, None,
                  Unprocessable("delete_session_endpoint"))
    ELSE IF ~Binds("delete_session")
    THEN Complete("delete_session_endpoint", cred, sid, None,
                  Respond("delete_session_endpoint", Raise("TypeError"),
                          HttpOfOwnerChecked("TypeError")))
    ELSE LET out == DeleteOutcome(sid) IN
         Complete("delete_session_endpoint", cred, sid, None,
                  Respond("delete_session_endpoint", out,
                          HttpOfOwnerChecked(out.result)))

\* What get_current_user_optional can yield: a verified principal or None.
Credentials == Users \cup {NoPrincipal}

\* ------------------------------------------- multi-turn tool calls
\* The two tool calls of the multi-turn variant. The repository declares
\* their request and response bodies (schemas/viva.py) and has no service
\* code for them; the operations below follow the written specification of
\* the tool-call reconciler.

\* The question bank, in the order of its ids. It is queried, never changed.
QuestionBank ==
    << [question_id |-> "q1", topic |-> "Python Programming", class_level |-> 10,
        difficulty |-> 1, question_text |-> "What is a list?"],
       [question_id |-> "q2", topic |-> "Python Programming", class_level |-> 10,
        difficulty |-> 2, question_text |-> "What does a generator do?"],
       [question_id |-> "q3", topic |-> "Thermodynamics", class_level |-> 10,
        difficulty |-> 1, question_text |-> "State the first law."] >>

Difficulties == 1 .. 3

\* Arguments of next_question (GetNextQuestionRequest without the session id).
NextQuestionArgs ==
    [topic : {"Python Programming", "Thermodynamics"}, class_level : {10},
     current_difficulty : Difficulties]

\* Arguments of evaluate_and_save (EvaluateResponseRequest without the
\* session id): an answer to a question of the bank, or to a question the
\* agent asked free-form (question_id None).
EvaluateArgs ==
    { [question_text |-> QuestionBank[k].question_text,
       question_id |-> Some(QuestionBank[k].question_id),
       difficulty |-> QuestionBank[k].difficulty,
       student_answer |-> "an answer", evaluation |-> "accurate",
       is_correct |-> TRUE] : k \in DOMAIN QuestionBank }
    \cup { [question_text |-> "Why Python?", question_id |-> None,
            difficulty |-> 3, student_answer |-> "an answer",
            evaluation |-> "vague", is_correct |-> FALSE] }

\* The turns recorded for a session: none until the first is appended.
TurnsOf(sid) == IF sid \in DOMAIN turns THEN turns[sid] ELSE <<>>

TotalTurns(ts) == LET RECURSIVE Sum(_)
                      Sum(S) == IF S = {} THEN 0
                                ELSE LET i == CHOOSE j \in S : TRUE
                                     IN Len(ts[i]) + Sum(S \ {i})
                  IN Sum(DOMAIN ts)

\* turns[].question_id of a session: the ids of the questions already asked.
AskedIds_NoneRecorded(ts) == {}
AskedIds(ts) == {ts[k].question_id[1] : k \in {j \in DOMAIN ts : ts[j].question_id # None}}

\* QuestionBank.find_one(topic, class_level, difficulty, excluding=ids): the
\* first entry, in the order of ids, that matches and is not excluded;
\* difficulty None matches every difficulty.
find_one(topic, class_level, difficulty, excluding) ==
    LET hits == {k \in DOMAIN QuestionBank :
                    /\ QuestionBank[k].topic = topic
                    /\ QuestionBank[k].class_level = class_level
                    /\ difficulty # None => QuestionBank[k].difficulty = difficulty[1]
                    /\ QuestionBank[k].question_id \notin excluding}
    IN IF hits = {} THEN None
       ELSE Some(QuestionBank[CHOOSE k \in hits : \A j \in hits : k <= j])

\* The selection of next_question: exact difficulty first, then any
\* difficulty, among the entries not yet asked in this session.
SelectQuestion(ts, a) ==
    LET exact == find_one(a.topic, a.class_level, Some(a.current_difficulty),
                          AskedIds(ts))
    IN IF exact # None THEN exact
       ELSE find_one(a.topic, a.class_level, None, AskedIds(ts))

\* A tool call of the multi-turn variant returning: it writes turns only.
TurnReturns(op, caller, sid, args, result, ret, detail, ts) ==
    /\ last' = [op |-> op, caller |-> caller, sid |-> sid, args |-> args,
                result |-> result, ret |-> ret, token |-> None,
                raised |-> None, detail |-> detail]
    /\ turns' = ts
    /\ UNCHANGED <<sessions, nextId, clock, pending, calls, database>>

next_question(caller, sid, a) ==
    IF sid \notin DOMAIN sessions
    THEN TurnReturns("next_question", caller, sid, a, "NotFound", None, None, turns)
    ELSE LET q == SelectQuestion(TurnsOf(sid), a) IN
         IF q = None
         THEN TurnReturns("next_question", caller, sid, a, "NotFound", None,
                          Some("no questions available"), turns)
         ELSE TurnReturns("next_question", caller, sid, a, "ok",
                          [question_text |-> q[1].question_text,
                           difficulty |-> q[1].difficulty,
                           question_id |-> q[1].question_id],
                          None, turns)

\* The turn evaluate_and_save records, numbered after the turns present.
NewTurn_CountsFromZero(ts, a, now) ==
    [turn_id |-> Len(ts), question_text |-> a.question_text,
     difficulty |-> a.difficulty, question_id |-> a.question_id,
     student_answer_transcription |-> a.student_answer,
     ai_evaluation |-> a.evaluation, is_correct |-> a.is_correct,
     timestamp |-> now]
NewTurn(ts, a, now) ==
    [turn_id |-> Len(ts) + 1, question_text |-> a.question_text,
     difficulty |-> a.difficulty, question_id |-> a.question_id,
     student_answer_transcription |-> a.student_answer,
     ai_evaluation |-> a.evaluation, is_correct |-> a.is_correct,
     timestamp |-> now]

evaluate_and_save(caller, sid, a) ==
    IF sid \notin DOMAIN sessions
    THEN TurnReturns("evaluate_and_save", caller, sid, a, "NotFound", None, None, turns)
    ELSE /\ TotalTurns(turns) < MaxTurns
         /\ LET t == NewTurn(TurnsOf(sid), a, clock) IN
            TurnReturns("evaluate_and_save", caller, sid, a, "ok",
                        [turn_id |-> t.turn_id], None,
                        [i \in DOMAIN turns \cup {sid} |->
                            IF i = sid THEN Append(TurnsOf(sid), t) ELSE turns[i]])

\* ------------------------------------------------ token verification
\* ClerkAuthService, constructed with the secret key of the settings.
ClerkSecretKeys == {"sk_test_1", "sk_test_2"}
ClerkAuthServices == [secret_key : ClerkSecretKeys]

\* Raw JWT strings handed to verify_token.
Tokens == {"jwt-1", "jwt-2", "jwt-3"}

\* The JWT payload as payload.get(...) reads it: a claim that is absent
\* reads as None. 'sub' may be present and empty.
Payloads ==
    [sub : {None, Some(""), Some("user_a"), Some("user_b")},
     email : {None, Some("ada@example.org")},
     sid : {None, Some("sess_1")}]

\* What authenticate_request does with the request built from the token:
\* it throws, or it returns a request state that is not signed in (with no
\* payload), or one that is signed in, with a payload or without.
SdkOutcomes ==
    { [raises |-> TRUE, is_signed_in |-> FALSE, payload |-> None],
      [raises |-> FALSE, is_signed_in |-> FALSE, payload |-> None],
      [raises |-> FALSE, is_signed_in |-> TRUE, payload |-> None] }
    \cup { [raises |-> FALSE, is_signed_in |-> TRUE, payload |-> Some(p)] :
              p \in Payloads }

\* request_state.payload or {}
PayloadOr(payload) ==
    IF payload = None THEN [sub |-> None, email |-> None, sid |-> None]
    ELSE payload[1]

\* The value verify_token returns: None, or an AuthenticatedUser.
VerifiedUser_SessionAsUser(self, token, sdk) ==
    IF sdk.raises THEN None
    ELSE IF ~sdk.is_signed_in THEN None
    ELSE LET payload == PayloadOr(sdk.payload)
             user_id == payload.sid
         IN IF user_id = None \/ user_id = Some("") THEN None
            ELSE Some([user_id |-> user_id[1], email |-> payload.email,
                       session_id |-> payload.sid])
VerifiedUser(self, token, sdk) ==
    IF sdk.raises THEN None
    ELSE IF ~sdk.is_signed_in THEN None
    ELSE LET payload == PayloadOr(sdk.payload)
             user_id == payload.sub
         IN IF user_id = None \/ user_id = Some("") THEN None
            ELSE Some([user_id |-> user_id[1], email |-> payload.email,
                       session_id |-> payload.sid])

verify_token(self, token, sdk) ==
    Complete("verify_token", NoPrincipal, 0,
             [self |-> self, token |-> token, sdk |-> sdk],
             Outcome(sessions, nextId, clock, "ok", VerifiedUser(self, token, sdk)))

\* ---------------------------------------------------- database client
\* db/database.py. `client` is the module-level _client: None, or the
\* AsyncIOMotorClient created k-th in this process; `opened` counts the
\* clients created.
Imported == [client |-> None, opened |-> 0]

\* init_db: a new client replaces the one held, whatever it was.
InitDb(db) == [client |-> Some(db.opened + 1), opened |-> db.opened + 1]

\* The module after the lifespan's startup: init_db ran once.
Started == InitDb(Imported)

\* close_db: closes the client held, if any, and forgets it.
CloseDb_KeepsClient(db) == db
CloseDb(db) == IF db.client # None THEN [db EXCEPT !.client = None] ELSE db

\* verify_connection: False without a client, else whether the ping answers.
VerifyConnection(db, pingOk) == IF db.client = None THEN FALSE ELSE pingOk

\* A function of database.py, or the health endpoint, returning.
DbReturns(op, args, result, ret, db) ==
    /\ last' = [op |-> op, caller |-> NoPrincipal, sid |-> 0, args |-> args,
                result |-> result, ret |-> ret, token |-> None,
                raised |-> None, detail |-> None]
    /\ database' = db
    /\ UNCHANGED <<sessions, nextId, clock, pending, calls, turns>>

get_client ==
    IF database.client = None
    THEN DbReturns("get_client", None, "RuntimeError", None, database)
    ELSE DbReturns("get_client", None, "ok", database.client, database)

\* init_beanie may raise after _client has been assigned.
init_db(beanieOk) ==
    /\ database.opened < MaxClients
    /\ DbReturns("init_db", None, IF beanieOk THEN "ok" ELSE "StoreFailure",
                 None, InitDb(database))

close_db == DbReturns("close_db", None, "ok", None, CloseDb(database))

Pings == {"pong", "timeout", "refused"}

verify_connection(ping) ==
    DbReturns("verify_connection", Some(ping), "ok",
              Some(VerifyConnection(database, ping = "pong")), database)

\* GET /health
health_check(ping) ==
    IF VerifyConnection(database, ping = "pong")
    THEN DbReturns("health_check", Some(ping), "200",
                   Some([status |-> "healthy", database |-> "connected"]), database)
    ELSE DbReturns("health_check", Some(ping), "503",
                   Some([status |-> "unhealthy", database |-> "disconnected"]),
                   database)

\* ------------------------------------------------------- specification
Init ==
    /\ sessions = <<>>
    /\ nextId = 1
    /\ clock = 0
    /\ last = [op |-> "none", caller |-> NoPrincipal, sid |-> 0, args |-> None,
               result |-> "none", ret |-> None, token |-> None,
               raised |-> None, detail |-> None]
    /\ pending = {}
    /\ calls = {}
    /\ turns = <<>>
    /\ database = Started

\* The store after user_a started two sessions, at times 1 and 2, and no
\* call is running.
InitRace ==
    /\ \E req \in StartRequests :
          /\ req.user_id = "user_a"
          /\ sessions = (1 :> VivaSession(req, 1)) @@ (2 :> VivaSession(req, 2))
    /\ nextId = 3
    /\ clock = 2
    /\ last = [op |-> "none", caller |-> NoPrincipal, sid |-> 0, args |-> None,
               result |-> "none", ret |-> None, token |-> None,
               raised |-> None, detail |-> None]
    /\ pending = {}
    /\ calls = {}
    /\ turns = <<>>
    /\ database = Started

Next ==
    \/ \E c \in Users, req \in StartRequests, now \in 1 .. MaxClock, ok \in BOOLEAN :
          start_new_viva_session(c, req, now, ok)
    \/ \E c \in Users, sid \in SessionIds \cup MalformedIds, a \in ConcludeArgs :
          conclude_viva_session(c, sid, a)
    \/ \E sid \in SessionIds \cup MalformedIds : get_viva_session_details(sid)
    \/ \E u \in Users : \E h \in HistoryOrders(u) : get_user_history(u, h)
    \/ \E c \in Users, sid \in SessionIds \cup MalformedIds, t \in Titles :
          rename_session(c, sid, t)
    \/ \E c \in Users, sid \in SessionIds \cup MalformedIds :
          delete_session(c, sid)

\* The handlers of app/api/v1/viva.py.
NextApi ==
    \/ \E cred \in Credentials, req \in StartRequests : start_viva(cred, req)
    \/ \E cred \in Credentials, body \in ConcludeVivaRequests :
          conclude_viva(cred, body)
    \/ \E cred \in Credentials :
          \E h \in UNION {HistoryOrders(u) : u \in Users} \cup {<<>>} :
             \E ok \in BOOLEAN : get_history(cred, h, ok)
    \/ \E sid \in SessionIds \cup MalformedIds, ok \in BOOLEAN :
          get_session_details(sid, ok)
    \/ \E cred \in Credentials, sid \in SessionIds \cup MalformedIds, t \in Titles :
          rename_session_endpoint(cred, sid, t)
    \/ \E cred \in Credentials, sid \in SessionIds \cup MalformedIds :
          delete_session_endpoint(cred, sid)

\* start_new_viva_session in two parts, next to the calls that read and
\* delete what it inserted.
NextSteps ==
    \/ \E c \in Users, req \in StartRequests, now \in 1 .. MaxClock :
          start_new_viva_session_insert(c, req, now)
    \/ \E p \in pending, ok \in BOOLEAN : start_new_viva_session_token(p, ok)
    \/ \E sid \in SessionIds \cup MalformedIds : get_viva_session_details(sid)
    \/ \E c \in Users, sid \in SessionIds \cup MalformedIds :
          delete_session(c, sid)

\* The handlers, over a store that direct calls of start_new_viva_session
\* fill (start_viva never gets as far as its insert).
NextHttp ==
    \/ \E c \in Users, req \in StartRequests, now \in 1 .. MaxClock, ok \in BOOLEAN :
          start_new_viva_session(c, req, now, ok)
    \/ NextApi

\* The principal on whose behalf the two-step calls are made (the service
\* methods do not receive it).
RaceCallers == {"user_a"}

\* conclude, rename and delete in two steps each.
NextRace ==
    \/ \E c \in RaceCallers, sid \in SessionIds \cup MalformedIds, a \in ConcludeArgs,
          now \in 1 .. MaxClock :
          conclude_viva_session_get(c, sid, a, now)
    \/ \E c \in calls : conclude_viva_session_save(c)
    \/ \E c \in RaceCallers, sid \in SessionIds \cup MalformedIds, t \in Titles :
          rename_session_get(c, sid, t)
    \/ \E c \in calls : rename_session_save(c)
    \/ \E c \in RaceCallers, sid \in SessionIds \cup MalformedIds :
          delete_session_get(c, sid)
    \/ \E c \in calls : delete_session_delete(c)

\* Calls of the instruction builder.
NextBuilder ==
    \E self \in GeminiServices, req \in BuilderRequests :
       generate_system_instruction(self, req)

\* The service methods called directly.
Spec == Init /\ [][Next]_vars

\* Calls on the same and on different sessions, interleaved at their awaits.
SpecRace == InitRace /\ [][NextRace]_vars

\* The multi-turn tool calls, on the store of InitRace.
NextTurns ==
    \/ \E c \in RaceCallers, sid \in SessionIds, a \in NextQuestionArgs :
          next_question(c, sid, a)
    \/ \E c \in RaceCallers, sid \in SessionIds, a \in EvaluateArgs :
          evaluate_and_save(c, sid, a)

SpecTurns == InitRace /\ [][NextTurns]_vars

\* Token verification alone.
NextAuth ==
    \E self \in ClerkAuthServices, token \in Tokens, sdk \in SdkOutcomes :
       verify_token(self, token, sdk)

SpecAuth == Init /\ [][NextAuth]_vars

\* The database module from its import, and the health endpoint.
InitDatabase ==
    /\ sessions = <<>>
    /\ nextId = 1
    /\ clock = 0
    /\ last = [op |-> "none", caller |-> NoPrincipal, sid |-> 0, args |-> None,
               result |-> "none", ret |-> None, token |-> None,
               raised |-> None, detail |-> None]
    /\ pending = {}
    /\ calls = {}
    /\ turns = <<>>
    /\ database = Imported

NextDatabase ==
    \/ get_client
    \/ \E ok \in BOOLEAN : init_db(ok)
    \/ close_db
    \/ \E ping \in Pings : verify_connection(ping)
    \/ \E ping \in Pings : health_check(ping)

SpecDatabase == InitDatabase /\ [][NextDatabase]_vars

\* The instruction builder alone.
SpecBuilder == Init /\ [][NextBuilder]_vars

\* The HTTP handlers alone.
SpecHttp == Init /\ [][NextHttp]_vars

\* Starts, reads and deletes, running while a start awaits its token.
SpecSteps == Init /\ [][NextSteps]_vars

\* The service methods and the HTTP handlers over the same store.
SpecApi == Init /\ [][Next \/ NextApi]_vars

\* ================================================================ claims
\* Error kinds of the specification, as the code would raise them.
Forbidden == "PermissionError"
InvalidState == "InvalidState"
OwnerChecked == {"rename_session", "delete_session", "conclude_viva_session"}

\* C1: a rename, delete or conclude of an existing session on behalf of a
\* principal other than its owner (with arguments that pass validation)
\* fails with Forbidden and leaves the store as it was.
C1_NonOwnerForbidden ==
    [][ ( /\ last'.op \in OwnerChecked
          /\ last'.sid \in DOMAIN sessions
          /\ last'.caller # sessions[last'.sid].user_id
          /\ last'.result # "ValidationError" )
        => ( last'.result = Forbidden /\ sessions' = sessions ) ]_vars

\* C2: a conclude of a session whose status is not in_progress (with a
\* score that passes validation) fails with InvalidState and leaves the
\* session's feedback and ended_at unchanged.
C2_SecondConcludeRejected ==
    [][ ( /\ last'.op = "conclude_viva_session"
          /\ last'.sid \in DOMAIN sessions
          /\ sessions[last'.sid].status # "in_progress"
          /\ last'.result # "ValidationError" )
        => ( /\ last'.result = InvalidState
             /\ last'.sid \in DOMAIN sessions'
             /\ sessions'[last'.sid].feedback = sessions[last'.sid].feedback
             /\ sessions'[last'.sid].ended_at = sessions[last'.sid].ended_at ) ]_vars

\* C3: when start returns a session id, get_details of that id succeeds and
\* shows status in_progress, no ended_at and no feedback.
C3_StartedSessionInProgress ==
    ( last.op = "start_new_viva_session" /\ last.result = "ok" )
    => LET d == DetailsOutcome(last.ret.viva_session_id) IN
       /\ d.result = "ok"
       /\ d.ret.viva_session_id = last.ret.viva_session_id
       /\ d.ret.status = "in_progress"
       /\ d.ret.ended_at = None
       /\ d.ret.feedback = None

\* A start returned while an earlier session was already completed.
C3_Witness ==
    /\ last.op = "start_new_viva_session"
    /\ last.result = "ok"
    /\ \E i \in DOMAIN sessions : sessions[i].status = "completed"

\* C4: a successful conclude of an in_progress session stores exactly the
\* supplied feedback, status completed and ended_at = the time read, returns
\* {status: completed, score, final_feedback: summary}, and a following
\* get_details shows status completed and the supplied score.
C4_ConcludeStoresFeedback ==
    [][ ( /\ last'.op = "conclude_viva_session"
          /\ last'.result = "ok"
          /\ last'.sid \in DOMAIN sessions
          /\ sessions[last'.sid].status = "in_progress" )
        => LET sid == last'.sid
               a == last'.args
               s == sessions'[sid]
               d == SessionDetails(sid, s) IN
           /\ sid \in DOMAIN sessions'
           /\ s.feedback = Some([score |-> a.score, summary |-> a.summary,
                                 strong_points |-> a.strong_points,
                                 areas_of_improvement |-> a.areas_of_improvement])
           /\ s.status = "completed"
           /\ s.ended_at = Some(clock')
           /\ clock' > clock
           /\ last'.ret = [status |-> "completed", score |-> a.score,
                           final_feedback |-> a.summary]
           /\ d.status = "completed"
           /\ d.feedback[1].score = a.score ]_vars

\* The only session ever started was concluded by the second clock reading,
\* with score 8.
C4_Witness ==
    /\ last.op = "conclude_viva_session"
    /\ last.result = "ok"
    /\ nextId = 2
    /\ clock = 2
    /\ sessions[last.sid].feedback[1].score = 8

\* C5: every stored session has feedback iff its status is completed.
C5_FeedbackIffCompleted ==
    \A i \in DOMAIN sessions :
        (sessions[i].feedback # None) <=> (sessions[i].status = "completed")

\* The store holds a completed session with feedback beside one in progress.
C5_Witness ==
    \E i, j \in DOMAIN sessions :
        /\ sessions[i].status = "completed" /\ sessions[i].feedback # None
        /\ sessions[j].status = "in_progress" /\ sessions[j].feedback = None

\* C6: every stored session has ended_at iff its status is completed or
\* abandoned.
C6_EndedAtIffTerminal ==
    \A i \in DOMAIN sessions :
        (sessions[i].ended_at # None)
            <=> (sessions[i].status \in {"completed", "abandoned"})

\* A session was just concluded and carries an end time; another has none.
C6_Witness ==
    /\ last.op = "conclude_viva_session"
    /\ last.result = "ok"
    /\ sessions[last.sid].ended_at = Some(clock)
    /\ \E j \in DOMAIN sessions : sessions[j].ended_at = None

C8_OwnerFromPrincipal ==
    ( last.op = "start_new_viva_session" /\ last.sid \in DOMAIN sessions )
    => sessions[last.sid].user_id = last.caller

\* C9: list_history(u) returns each session owned by u once, no session of
\* another owner, in descending order of started_at.
C9_HistoryOwnedSortedDesc ==
    last.op = "get_user_history"
    => LET h == last.ret
           u == last.args IN
       /\ last.result = "ok"
       /\ {h[k].viva_session_id : k \in 1 .. Len(h)}
              = {i \in DOMAIN sessions : sessions[i].user_id = u}
       /\ Len(h) = Cardinality({i \in DOMAIN sessions : sessions[i].user_id = u})
       /\ \A k \in 1 .. Len(h) :
              h[k].started_at = sessions[h[k].viva_session_id].started_at
       /\ \A k \in 1 .. Len(h) - 1 : h[k].started_at >= h[k + 1].started_at

\* A history of two sessions, the later one first, while the store also
\* holds a session of another owner.
C9_Witness ==
    /\ last.op = "get_user_history"
    /\ Len(last.ret) = 2
    /\ last.ret[1].started_at > last.ret[2].started_at
    /\ \E i \in DOMAIN sessions : sessions[i].user_id # last.args

\* C10: no call changes the owner id or started_at of a stored session.
C10_OwnerAndStartImmutable ==
    [][ \A i \in DOMAIN sessions \cap DOMAIN sessions' :
            /\ sessions'[i].user_id = sessions[i].user_id
            /\ sessions'[i].started_at = sessions[i].started_at ]_vars

\* A renamed session of user_b was concluded later than it was started.
C10_Witness ==
    /\ last.op = "conclude_viva_session"
    /\ last.result = "ok"
    /\ sessions[last.sid].title = "Midterm Viva"
    /\ sessions[last.sid].user_id = "user_b"
    /\ sessions[last.sid].ended_at # Some(sessions[last.sid].started_at)

\* C11: once a stored session has an ended_at, no call changes it.
C11_EndedAtSetOnce ==
    [][ \A i \in DOMAIN sessions \cap DOMAIN sessions' :
            sessions[i].ended_at # None
                => sessions'[i].ended_at = sessions[i].ended_at ]_vars

TakesSessionId ==
    {"conclude_viva_session", "get_viva_session_details",
     "rename_session", "delete_session"}

\* C12: conclude, get_details, rename and delete of a well-formed id that no
\* stored session has fail with NotFound and leave the store, the id counter
\* and the clock as they were.
C12_AbsentIdNotFound ==
    [][ ( /\ last'.op \in TakesSessionId
          /\ last'.sid \in SessionIds
          /\ last'.sid \notin DOMAIN sessions )
        => ( /\ last'.result = "NotFound"
             /\ sessions' = sessions
             /\ nextId' = nextId
             /\ clock' = clock ) ]_vars

\* A rename of an id the store has not assigned yet was answered NotFound
\* while the store holds sessions.
C12_Witness ==
    /\ last.op = "rename_session"
    /\ last.result = "NotFound"
    /\ last.sid >= nextId
    /\ DOMAIN sessions # {}

\* C13: every stored feedback has a score in 0..10; a conclude that succeeds
\* was given a score in 0..10, and a conclude that fails (among them every
\* one rejected for its score) leaves the store as it was.
C13_ScoreInRange ==
    [][ /\ \A i \in DOMAIN sessions' :
              sessions'[i].feedback # None
                  => sessions'[i].feedback[1].score \in 0 .. 10
        /\ ( last'.op = "conclude_viva_session" /\ last'.result = "ok" )
              => last'.args.score \in 0 .. 10
        /\ ( last'.op = "conclude_viva_session" /\ last'.result # "ok" )
              => sessions' = sessions ]_vars

\* A conclude of a stored, completed session was rejected for its score.
C13_Witness ==
    /\ last.op = "conclude_viva_session"
    /\ last.result = "ValidationError"
    /\ last.sid \in DOMAIN sessions
    /\ sessions[last.sid].status = "completed"

C16_InsertBeforeToken ==
    [][ /\ \A p \in pending' \ pending :
              /\ p.sid = nextId
              /\ p.sid \notin DOMAIN sessions
              /\ p.sid \in DOMAIN sessions'
              /\ nextId' = nextId + 1
        /\ \A p \in pending \ pending' :
              /\ p.sid \in 1 .. nextId - 1
              /\ last'.op = "start_new_viva_session"
              /\ last'.sid = p.sid
              /\ last'.token # None
        /\ ( last'.token # None /\ last' # last )
              => \E p \in pending \ pending' : p.sid = last'.sid ]_vars

\* A token was requested for a session that another call deleted while the
\* start was waiting, with a second start still waiting.
C16_Witness ==
    /\ last.op = "start_new_viva_session"
    /\ last.token # None
    /\ last.sid \notin DOMAIN sessions
    /\ pending # {}

\* C17: when the token request of a start fails, the call reports failure
\* and returns nothing, and the session it inserted is still stored, in
\* progress, with no feedback and no ended_at.
C17_FailedProvisioningKeepsSession ==
    ( /\ last.op = "start_new_viva_session"
      /\ last.token # None
      /\ ~last.token[1].issued )
    => /\ last.result = "ProvisioningFailure"
       /\ last.ret = None
       /\ last.sid \in DOMAIN sessions
       /\ sessions[last.sid].status = "in_progress"
       /\ sessions[last.sid].feedback = None
       /\ sessions[last.sid].ended_at = None

\* A start has just failed at its token request, next to an older session.
C17_Witness ==
    /\ last.op = "start_new_viva_session"
    /\ last.result = "ProvisioningFailure"
    /\ last.sid \in DOMAIN sessions
    /\ Cardinality(DOMAIN sessions) >= 2

\* The session of the start that has just failed at its token request.
IsOrphan(i) ==
    /\ last.op = "start_new_viva_session"
    /\ last.token # None
    /\ ~last.token[1].issued
    /\ last.sid = i

\* C18: every stored session, and so the one a failed token request left
\* behind, is in every list get_user_history returns for its user_id,
\* get_viva_session_details of it succeeds with its fields, and
\* delete_session of it succeeds and removes it.
C18_OrphanQueryableDeletable ==
    /\ \A i \in SessionIds : IsOrphan(i) => i \in DOMAIN sessions
    /\ \A i \in DOMAIN sessions :
          /\ \A h \in HistoryOrders(sessions[i].user_id) :
                \E k \in 1 .. Len(h) :
                   HistoryOutcome(h).ret[k].viva_session_id = i
          /\ DetailsOutcome(i).result = "ok"
          /\ DetailsOutcome(i).ret.viva_session_id = i
          /\ DetailsOutcome(i).ret.status = sessions[i].status
          /\ DeleteOutcome(i).result = "ok"
          /\ i \notin DOMAIN DeleteOutcome(i).sessions

\* The orphan of the latest start is stored next to a completed session of
\* the same user.
C18_Witness ==
    \E i \in DOMAIN sessions :
       /\ IsOrphan(i)
       /\ \E j \in DOMAIN sessions :
             /\ j # i
             /\ sessions[j].user_id = sessions[i].user_id
             /\ sessions[j].status = "completed"

\* C19 as stated: the token is single-use and its expiry in minutes is at
\* most the session duration start returns.
C19_ExpiryWithinDuration ==
    ( last.op = "start_new_viva_session" /\ last.result = "ok" )
    => /\ last.token[1].config.uses = 1
       /\ last.token[1].config.expire_minutes <= last.ret.session_duration_minutes

\* C19: every token start requests is single-use and expires 15 minutes
\* after the request; a start that returns declares a session duration of
\* 5 minutes, so the token does not expire before the declared duration.
C19_SingleUseFifteenMinutes ==
    ( last.op = "start_new_viva_session" /\ last.token # None )
    => /\ last.token[1].config.uses = 1
       /\ last.token[1].config.expire_minutes = 15
       /\ last.result = "ok"
             => /\ last.ret.session_duration_minutes = 5
                /\ last.token[1].config.expire_minutes
                      >= last.ret.session_duration_minutes

\* A start returned with its token issued.
C19_Witness ==
    /\ last.op = "start_new_viva_session"
    /\ last.result = "ok"
    /\ last.token # None
    /\ last.token[1].issued
    /\ last.ret.viva_session_id \in DOMAIN sessions

\* C20: get_session_details, rename, delete and conclude answer a malformed
\* session id with a client error (401 without credentials, else 422) and
\* leave the store as it was.
C20_MalformedIdRejected ==
    [][ ( /\ last'.op \in {"get_session_details", "rename_session_endpoint",
                           "delete_session_endpoint", "conclude_viva"}
          /\ last'.sid \in MalformedIds )
        => ( last'.result \in {"401", "422"} /\ sessions' = sessions ) ]_vars

Handlers ==
    {"start_viva", "conclude_viva", "get_history", "get_session_details",
     "rename_session_endpoint", "delete_session_endpoint"}

\* C24: start, conclude, history, rename and delete answer a request for
\* which no principal was verified with 401, before the request is looked
\* at further, and the store, the id counter and the clock stay as they were.
C24_NoPrincipalNoService ==
    [][ ( /\ last'.op \in Handlers \ {"get_session_details"}
          /\ last'.caller = NoPrincipal )
        => ( /\ last'.result = "401"
             /\ last'.raised = Some("Unauthenticated")
             /\ last'.ret = None
             /\ sessions' = sessions
             /\ nextId' = nextId
             /\ clock' = clock ) ]_vars

\* A delete without a verified principal, addressed to a stored session,
\* was answered 401.
C24_Witness ==
    /\ last.op = "delete_session_endpoint"
    /\ last.caller = NoPrincipal
    /\ last.result = "401"
    /\ last.sid \in DOMAIN sessions

\* What the handlers do not classify: they end in the last except clause.
InternalFailures ==
    {"StoreFailure", "TypeError", "AttributeError", "InvalidId", "ProvisioningFailure"}

\* C27: a handler whose call raised a store failure or another exception
\* it does not classify answers 500 with its own fixed text, which is not
\* the text of the exception; no other answer carries the text of such an
\* exception either.
C27_InternalFailureGeneric ==
    /\ ( last.op \in Handlers /\ last.raised # None /\ last.raised[1] \in InternalFailures )
          => /\ last.result = "500"
             /\ last.detail = Some(GenericDetail[last.op])
             /\ last.ret = None
    /\ last.op \in Handlers
          => \A k \in InternalFailures : last.detail # Some(ExceptionText[k])

\* The store failed under get_session_details of a stored session.
C27_Witness ==
    /\ last.op = "get_session_details"
    /\ last.raised = Some("StoreFailure")
    /\ last.result = "500"
    /\ last.sid \in DOMAIN sessions

BuilderInputs(req) ==
    <<req.student_name, req.topic, req.class_level, req.session_type>>

\* C25: two consecutive calls of the builder given the same student_name,
\* topic, class_level and session_type return the same text, whatever the
\* key of the service and the other fields of the request; no part of the
\* text is the key.
C25_BuilderDependsOnInputsOnly ==
    [][ /\ ( /\ last.op = "generate_system_instruction"
             /\ last'.op = "generate_system_instruction"
             /\ BuilderInputs(last.args.viva_request)
                   = BuilderInputs(last'.args.viva_request) )
           => last'.ret = last.ret
        /\ last'.op = "generate_system_instruction"
           => \A k \in 1 .. Len(last'.ret) : last'.ret[k] # last'.args.self.api_key ]_vars

\* The builder was called for Bo at class level 9 by a service holding the
\* second key.
C25_Witness ==
    /\ last.op = "generate_system_instruction"
    /\ last.args.self.api_key = "AIza-key-2"
    /\ last.args.viva_request.student_name = "Bo"
    /\ \E k \in 1 .. Len(last.ret) : last.ret[k] = "Bo"
    /\ \E k \in 1 .. Len(last.ret) : last.ret[k] = "9"

\* The tools declared in the token the latest start asked for.
DeclaredTools == last.token[1].config.tools

\* C26 as stated: one tool, conclude, taking session_id, score, summary,
\* strong_points and areas_of_improvement.
C26_ConcludeTakesSessionId ==
    ( last.op = "start_new_viva_session" /\ last.token # None )
    => /\ Len(DeclaredTools) = 1
       /\ DeclaredTools[1].properties =
             {"session_id", "score", "summary", "strong_points", "areas_of_improvement"}

\* C26: every token start asks for declares exactly one tool, conclude_viva,
\* taking (and requiring) score, summary, strong_points and
\* areas_of_improvement and no session_id; neither next_question nor
\* evaluate_and_save is declared.
C26_OnlyConcludeTool ==
    ( last.op = "start_new_viva_session" /\ last.token # None )
    => /\ Len(DeclaredTools) = 1
       /\ DeclaredTools[1].name = "conclude_viva"
       /\ DeclaredTools[1].properties =
             {"score", "summary", "strong_points", "areas_of_improvement"}
       /\ DeclaredTools[1].required = DeclaredTools[1].properties
       /\ \A k \in 1 .. Len(DeclaredTools) :
             DeclaredTools[k].name \notin {"next_question", "evaluate_and_save"}

\* A start asked for a token that was not issued; the request declared the
\* tool.
C26_Witness ==
    /\ last.op = "start_new_viva_session"
    /\ last.token # None
    /\ ~last.token[1].issued
    /\ Len(last.token[1].config.tools) = 1

\* C21: the write of a conclude or a rename stores the caller's in-memory
\* copy whole, whatever was written since the caller read: after such a
\* call returns, the stored record is the copy of that call. So of two
\* calls that read the same record, the one that writes last undoes the
\* other's update (witness).
C21_LastWriterWins ==
    ( /\ last.op \in {"conclude_viva_session", "rename_session"}
      /\ last.result = "ok" )
    => \E c \in calls :
          /\ c.pc = "returned"
          /\ c.op = last.op
          /\ c.sid = last.sid
          /\ c.args = last.args
          /\ last.sid \in DOMAIN sessions
          /\ sessions[last.sid] = c.doc

\* A conclude and a rename of the same session both returned success; the
\* rename wrote last, and the stored record is the rename's copy, in which
\* the session is in progress and has no feedback.
C21_Witness ==
    \E c1, c2 \in calls :
       /\ c1.pc = "returned" /\ c1.op = "conclude_viva_session"
       /\ c2.pc = "returned" /\ c2.op = "rename_session"
       /\ c1.sid = c2.sid
       /\ last.op = "rename_session" /\ last.result = "ok" /\ last.sid = c2.sid
       /\ sessions[c2.sid] = c2.doc
       /\ sessions[c2.sid].status = "in_progress"
       /\ sessions[c2.sid].feedback = None
       /\ c1.doc.status = "completed"

\* Fields a call assigns in its copy of the document.
Assigns(op) ==
    CASE op = "conclude_viva_session" -> {"feedback", "status", "ended_at"}
      [] op = "rename_session" -> {"title"}
      [] OTHER -> {}

\* C22: in every step, under any interleaving, the only record that
\* changes, appears or disappears is the one the call that writes in that
\* step addresses; the copy a call works on differs from the stored record
\* of its own session only in the fields the call assigns, and whether the
\* call fails with not-found depends on its own session alone.
C22_OtherSessionsUntouched ==
    [][ /\ \A i \in DOMAIN sessions \cup DOMAIN sessions' :
              ( \/ i \notin DOMAIN sessions
                \/ i \notin DOMAIN sessions'
                \/ sessions'[i] # sessions[i] )
              => \E c \in calls : /\ c.pc = "write"
                                  /\ c.sid = i
                                  /\ [c EXCEPT !.pc = "returned"] \in calls'
                                  /\ last'.sid = i
        /\ \A c \in calls' \ calls :
              c.pc = "write"
                 => /\ c.sid \in DOMAIN sessions
                    /\ \A f \in DOMAIN c.doc \ Assigns(c.op) :
                          c.doc[f] = sessions[c.sid][f]
        /\ ( last' # last /\ last'.result = "NotFound" )
              => last'.sid \notin DOMAIN sessions ]_vars

\* A rename of one session returned while a conclude of the other session
\* was between its read and its write.
C22_Witness ==
    \E c1, c2 \in calls :
       /\ c1.pc = "returned" /\ c1.op = "rename_session"
       /\ c2.pc = "write" /\ c2.op = "conclude_viva_session"
       /\ c1.sid # c2.sid
       /\ sessions[c1.sid].title = "Midterm Viva"
       /\ sessions[c2.sid].status = "in_progress"

\* C30: in every step, a stored session that is completed is still
\* completed afterwards, with feedback and ended_at set, unless the step
\* deletes it.
C30_ConclusionSurvivesRename ==
    [][ \A i \in DOMAIN sessions \cap DOMAIN sessions' :
           sessions[i].status = "completed"
              => /\ sessions'[i].status = "completed"
                 /\ sessions'[i].feedback # None
                 /\ sessions'[i].ended_at # None ]_vars

\* C28: every step keeps the turns already recorded for every session as
\* they are and adds at most one at the end; a successful evaluate_and_save
\* adds exactly one turn, made of its arguments, whose turn_id is the
\* previous turn count plus one and is the turn_id it returns; so the turns
\* of a session always carry turn_id 1..n in order. It fails with not-found
\* exactly when the session is not in the store.
C28_TurnsAppendOnly ==
    [][ /\ \A sid \in DOMAIN turns' :
              /\ Len(turns'[sid]) \in {Len(TurnsOf(sid)), Len(TurnsOf(sid)) + 1}
              /\ SubSeq(turns'[sid], 1, Len(TurnsOf(sid))) = TurnsOf(sid)
              /\ \A k \in 1 .. Len(turns'[sid]) : turns'[sid][k].turn_id = k
        /\ DOMAIN turns \subseteq DOMAIN turns'
        /\ last'.op = "evaluate_and_save"
              => IF last'.sid \in DOMAIN sessions
                 THEN LET n == Len(TurnsOf(last'.sid))
                          t == turns'[last'.sid][n + 1]
                      IN /\ last'.result = "ok"
                         /\ Len(turns'[last'.sid]) = n + 1
                         /\ last'.ret.turn_id = n + 1
                         /\ t.question_id = last'.args.question_id
                         /\ t.question_text = last'.args.question_text
                         /\ t.is_correct = last'.args.is_correct
                         /\ \A i \in DOMAIN turns' \ {last'.sid} :
                               turns'[i] = TurnsOf(i)
                 ELSE last'.result = "NotFound" /\ turns' = turns ]_vars

\* Three evaluate_and_save calls on one session, the first two for the same
\* question: three turns numbered 1, 2, 3.
C28_Witness ==
    /\ last.op = "evaluate_and_save"
    /\ last.result = "ok"
    /\ last.ret.turn_id = 3
    /\ Len(TurnsOf(last.sid)) = 3
    /\ TurnsOf(last.sid)[1].question_id = Some("q1")
    /\ TurnsOf(last.sid)[2].question_id = Some("q1")

\* C29: a question next_question returns is an entry of the bank for the
\* topic and class level asked for whose id is on no recorded turn of the
\* session, of the difficulty asked for whenever such an entry of that
\* difficulty exists; next_question fails with not-found exactly when the
\* session is missing or every entry for the topic and level is on a
\* recorded turn.
C29_NeverRepeatsQuestion ==
    last.op = "next_question"
    => LET ts == TurnsOf(last.sid)
           a == last.args
           unasked == {k \in DOMAIN QuestionBank :
                          /\ QuestionBank[k].topic = a.topic
                          /\ QuestionBank[k].class_level = a.class_level
                          /\ \A j \in DOMAIN ts :
                                ts[j].question_id # Some(QuestionBank[k].question_id)}
       IN /\ last.result \in {"ok", "NotFound"}
          /\ last.result = "NotFound"
                <=> (last.sid \notin DOMAIN sessions \/ unasked = {})
          /\ last.result = "ok"
                => /\ \E k \in unasked :
                         /\ last.ret.question_id = QuestionBank[k].question_id
                         /\ last.ret.question_text = QuestionBank[k].question_text
                         /\ last.ret.difficulty = QuestionBank[k].difficulty
                   /\ (\E k \in unasked :
                          QuestionBank[k].difficulty = a.current_difficulty)
                         => last.ret.difficulty = a.current_difficulty

\* The question of difficulty 1 is on a recorded turn; asked for
\* difficulty 1 again, next_question falls back to the unasked question of
\* difficulty 2.
C29_Witness ==
    /\ last.op = "next_question"
    /\ last.result = "ok"
    /\ last.args.topic = "Python Programming"
    /\ last.args.current_difficulty = 1
    /\ last.ret.question_id = "q2"
    /\ \E k \in DOMAIN TurnsOf(last.sid) :
          TurnsOf(last.sid)[k].question_id = Some("q1")

\* C31: in every step, an id the store assigned and no longer holds (its
\* session was deleted) is still absent from the store afterwards, whatever
\* rename or conclude that read the session before the delete writes.
C31_DeletedStaysDeleted ==
    [][ \A i \in 1 .. (nextId - 1) :
           i \notin DOMAIN sessions => i \notin DOMAIN sessions' ]_vars

\* C32 as stated: verify_token returns without raising; it returns no
\* principal exactly when the SDK throws, the token is not signed in, or
\* the payload has no 'sub' claim, and otherwise a principal whose user id
\* is the 'sub' claim.
C32_NoPrincipalIffNoSub ==
    last.op = "verify_token"
    => LET sdk == last.args.sdk IN
       /\ last.result = "ok"
       /\ last.ret = None
             <=> \/ sdk.raises
                 \/ ~sdk.is_signed_in
                 \/ sdk.payload = None
                 \/ sdk.payload[1].sub = None
       /\ last.ret # None => Some(last.ret[1].user_id) = sdk.payload[1].sub

\* C32, amended: verify_token returns without raising; it returns no
\* principal exactly when the SDK throws, the token is not signed in, or
\* the payload has no 'sub' claim or an empty one, and otherwise a
\* principal whose user id is the 'sub' claim.
C32_NoPrincipalIffNoSubOrEmpty ==
    last.op = "verify_token"
    => LET sdk == last.args.sdk IN
       /\ last.result = "ok"
       /\ last.ret = None
             <=> \/ sdk.raises
                 \/ ~sdk.is_signed_in
                 \/ sdk.payload = None
                 \/ sdk.payload[1].sub \in {None, Some("")}
       /\ last.ret # None => Some(last.ret[1].user_id) = sdk.payload[1].sub

\* A signed-in token whose payload carries an empty 'sub' claim was
\* verified, and no principal came back.
C32_Witness ==
    /\ last.op = "verify_token"
    /\ last.args.sdk.is_signed_in
    /\ last.args.sdk.payload # None
    /\ last.args.sdk.payload[1].sub = Some("")
    /\ last.ret = None

C34_NeverAbandoned ==
    [][ /\ \A i \in DOMAIN sessions' :
              sessions'[i].status \in {"in_progress", "completed"}
        /\ \A i \in DOMAIN sessions \cap DOMAIN sessions' :
              ( /\ sessions[i].status = "in_progress"
                /\ ~ ( /\ last'.op = "conclude_viva_session"
                       /\ last'.result = "ok"
                       /\ last'.sid = i ) )
              => sessions'[i].status = "in_progress" ]_vars

\* Two sessions are stored, the older one completed; the newer one has
\* just been renamed and is in progress.
C34_Witness ==
    /\ last.op = "rename_session"
    /\ last.result = "ok"
    /\ last.sid = 2
    /\ DOMAIN sessions = {1, 2}
    /\ sessions[1].status = "completed"
    /\ sessions[2].status = "in_progress"
    /\ sessions[2].title = "Midterm Viva"

\* C35: in every step, an id appears in the store only by a start, which
\* adds exactly one id, removes none and leaves every session already
\* stored unchanged; an id disappears only by a successful delete, which
\* removes exactly the id it was given and adds none; and every start
\* adds an id.
C35_IdsChangeByStartAndDelete ==
    [][ LET added == DOMAIN sessions' \ DOMAIN sessions
            removed == DOMAIN sessions \ DOMAIN sessions'
        IN /\ added # {}
                 => /\ last'.op = "start_new_viva_session"
                    /\ Cardinality(added) = 1
                    /\ removed = {}
                    /\ \A i \in DOMAIN sessions : sessions'[i] = sessions[i]
           /\ removed # {}
                 => /\ last'.op = "delete_session"
                    /\ last'.result = "ok"
                    /\ removed = {last'.sid}
                    /\ added = {}
           /\ last'.op = "start_new_viva_session" => added = {last'.sid} ]_vars

\* C36: every stored session whose ended_at is set has an ended_at that
\* is not earlier than its started_at.
C36_EndedNotBeforeStarted ==
    \A i \in DOMAIN sessions :
       sessions[i].ended_at # None
          => sessions[i].ended_at[1] >= sessions[i].started_at

\* A session started at time 1 has just been concluded at time 3.
C36_Witness ==
    /\ last.op = "conclude_viva_session"
    /\ last.result = "ok"
    /\ last.sid \in DOMAIN sessions
    /\ sessions[last.sid].started_at = 1
    /\ sessions[last.sid].ended_at = Some(3)

====
